---------------------------- MODULE Spec2Model ----------------------------
(***************************************************************************)
(* Model of the subscription bot in src/botest.py: the Google-Sheets       *)
(* ledger, the subscription policy, the join-request gatekeeper, the      *)
(* approval upsert, the /clean removal pass, the /purge_dups pass, the     *)
(* /audit pass, the broadcasts and the operator's settings.                *)
(*                                                                         *)
(* Dates are triples <<year, month, day>>.  The text of a sheet cell is a  *)
(* sequence of integer tokens: a token >= 0 is a run of decimal digits     *)
(* (its value), a token < 0 is a separator or another non-digit run.       *)
(* "2025-02-20" is <<2025, DASH, 2, DASH, 20>>, "17" is <<17>>, "" is <<>>.*)
(***************************************************************************)
EXTENDS Integers, Sequences, FiniteSets, TLC

VARIABLES
    sheet,      \* data rows of the worksheet; sheet[i] is worksheet row i + 1
    today,      \* the current UTC date seen by datetime.utcnow()/now()
    end_day,    \* subscription_config["end_day"]
    chan,       \* the channel: the membership status of every identity
    reminder_state, \* reminder_state: the reminder campaign
    ev          \* what the last handler run did (calls issued, sets computed)

vars == <<sheet, today, end_day, chan, reminder_state, ev>>

-----------------------------------------------------------------------------
(* Bounds of the model *)

MaxRowsGate == 2
MaxRowsPass == 3
MaxFaults == 1
MaxRowsUpsert == 1
MaxEndDayInput == 31
MaxRowsAudit == 3
MaxRowsBroadcast == 3
MaxRowsGuard == 1
MaxRowsKick == 2
MaxRowsAccess == 2

-----------------------------------------------------------------------------
(* Calendar (datetime.date) *)

IsLeap(y) == (y % 4 = 0 /\ y % 100 # 0) \/ y % 400 = 0

DaysInMonth(y, m) ==
    IF m = 2 THEN (IF IsLeap(y) THEN 29 ELSE 28)
    ELSE IF m \in {4, 6, 9, 11} THEN 30 ELSE 31

\* date(y, m, d) raises ValueError unless this holds
ValidDate(y, m, d) ==
    /\ y >= 1 /\ y <= 9999
    /\ m >= 1 /\ m <= 12
    /\ d >= 1 /\ d <= DaysInMonth(y, m)

\* the order of date objects
DateLT(a, b) ==
    \/ a[1] < b[1]
    \/ a[1] = b[1] /\ a[2] < b[2]
    \/ a[1] = b[1] /\ a[2] = b[2] /\ a[3] < b[3]

DateLE(a, b) == a = b \/ DateLT(a, b)

\* date.min
DateMin == <<1, 1, 1>>

\* "no date": the None that _parse_sheet_date returns
NoDate == <<>>

-----------------------------------------------------------------------------
(* Cell text *)

DASH == -1
DOT == -2
SLASH == -3
JUNK == -9

\* str(n) for a non-negative integer n
StrOfInt(n) == <<n>>

\* int(text) succeeds exactly on one run of digits
IsIntText(t) == Len(t) = 1 /\ t[1] >= 0

IntOfText(t) == t[1]

\* date.isoformat()
IsoFormat(d) == <<d[1], DASH, d[2], DASH, d[3]>>

\* datetime.strptime(s, "%Y-%m-%d"): year first, dashes
ParsesIso(s) ==
    /\ Len(s) = 5 /\ s[2] = DASH /\ s[4] = DASH
    /\ s[1] >= 0 /\ s[3] >= 0 /\ s[5] >= 0
    /\ s[1] >= 1000
    /\ ValidDate(s[1], s[3], s[5])

\* datetime.strptime(s, "%d.%m.%Y") and "%d/%m/%Y": day first, year last
ParsesDmy(s, sep) ==
    /\ Len(s) = 5 /\ s[2] = sep /\ s[4] = sep
    /\ s[1] >= 0 /\ s[3] >= 0 /\ s[5] >= 0
    /\ s[5] >= 1000
    /\ ValidDate(s[5], s[3], s[1])

\* the three strptime formats of _parse_sheet_date, tried in order, on a string
ParseDateText(s) ==
    IF ParsesIso(s) THEN <<s[1], s[3], s[5]>>
    ELSE IF ParsesDmy(s, DOT) THEN <<s[5], s[3], s[1]>>
    ELSE IF ParsesDmy(s, SLASH) THEN <<s[5], s[3], s[1]>>
    ELSE NoDate

-----------------------------------------------------------------------------
(* Subscription policy *)

CalcNoRollover(t, ed) ==
    LET d == IF ed < 1 THEN 1 ELSE IF ed > 28 THEN 28 ELSE ed
    IN  <<t[1], t[2] + 1, d>>

\* _calc_end_date(today) with subscription_config["end_day"] = ed
CalcEndDate(t, ed) ==
    LET d1 == IF ed < 1 THEN 1 ELSE ed
        d2 == IF d1 > 28 THEN 28 ELSE d1
        target_year == IF t[2] = 12 THEN t[1] + 1 ELSE t[1]
        target_month == IF t[2] = 12 THEN 1 ELSE t[2] + 1
    IN  <<target_year, target_month, d2>>

-----------------------------------------------------------------------------
(* _parse_sheet_date *)

\* base + timedelta(days = n) for base = 1899-12-30: the date of a spreadsheet
\* serial day count n >= 0; NoDate when the year passes 9999 (OverflowError)
SerialToDate(n) ==
    LET z == n - 25569 + 719468
        era == z \div 146097
        doe == z - era * 146097
        yoe == (doe - doe \div 1460 + doe \div 36524 - doe \div 146096) \div 365
        doy == doe - (365 * yoe + yoe \div 4 - yoe \div 100)
        mp == (5 * doy + 2) \div 153
        d == doy - (153 * mp + 2) \div 5 + 1
        m == IF mp < 10 THEN mp + 3 ELSE mp - 9
        y == yoe + era * 400 + (IF m <= 2 THEN 1 ELSE 0)
    IN  IF y > 9999 THEN NoDate ELSE <<y, m, d>>

\* _parse_sheet_date(val) for a val that is a str (sheet.row_values,
\* sheet.get_all_values): "" gives None, else the strptime formats
ParseSheetDateStr(s) == IF s = <<>> THEN NoDate ELSE ParseDateText(s)

\* _parse_sheet_date(val) for a val of sheet.get_all_records(), which turns a
\* cell of digits into an int and digits.digits into a float before the parse
ParseSheetDateVal(s) ==
    IF s = <<>> THEN NoDate
    ELSE IF IsIntText(s) THEN SerialToDate(s[1])
    ELSE IF Len(s) = 3 /\ s[1] >= 0 /\ s[2] = DOT /\ s[3] >= 0 THEN SerialToDate(s[1])
    ELSE ParseDateText(s)

-----------------------------------------------------------------------------
(* The worksheet *)

\* WANTED_HEADERS_RU, row 1 of the worksheet ("paid_at" stands for the
\* Russian header of the payment date, "end_date" for that of the end date)
Header ==
    <<"user_id", "username", "paid_at", "end_date", "notified", "status",
      "full_name", "phone_number", "in_channel">>

NCols == Len(Header)

\* _find_col(header_name), 1-based; 0 stands for None
FindCol(h) ==
    IF \E c \in 1..NCols : Header[c] = h
    THEN CHOOSE c \in 1..NCols : Header[c] = h
    ELSE 0

\* text of the cells the bot writes
NO == -10
ACTIVE == -11
YES == -12
AT == -13
ID == -14

BlankRow == [c \in 1..NCols |-> <<>>]

\* a row typed into the sheet by hand: identity, end date and full name cells
MkRow(uid, end, name) ==
    [BlankRow EXCEPT ![FindCol("user_id")] = uid,
                     ![FindCol("end_date")] = end,
                     ![FindCol("full_name")] = name]

\* a row with its in_channel cell filled in
MkRowCh(uid, end, ch) == [MkRow(uid, end, <<>>) EXCEPT ![FindCol("in_channel")] = ch]

\* sheet.row_values(r): the cells of a row up to its last non-empty cell
RowValues(row) ==
    LET last == IF \E c \in 1..NCols : row[c] # <<>>
                THEN CHOOSE c \in 1..NCols :
                        row[c] # <<>> /\ \A k \in (c + 1)..NCols : row[k] = <<>>
                ELSE 0
    IN  SubSeq(row, 1, last)

RECURSIVE FindAllFrom(_, _, _)
FindAllFrom(s, i, text) ==
    IF i > Len(s) THEN <<>>
    ELSE LET cols == SelectSeq([c \in 1..NCols |-> c], LAMBDA c : s[i][c] = text)
         IN  [k \in 1..Len(cols) |-> <<i + 1, cols[k]>>] \o FindAllFrom(s, i + 1, text)

\* sheet.findall(text): every cell of the worksheet whose text is `text`, as
\* <<row, column>> in row-major order (no header cell is a number)
FindAll(s, text) == FindAllFrom(s, 1, text)

-----------------------------------------------------------------------------
(* Join-request gatekeeper *)

RowIsPaidStrict(row_vals, t) ==
    LET idx == FindCol("end_date")
        pu == IF idx = 0 \/ idx > Len(row_vals) THEN NoDate
              ELSE ParseSheetDateStr(row_vals[idx])
    IN  pu # NoDate /\ DateLT(t, pu)

\* _row_is_paid(row_vals) on the day t
RowIsPaid(row_vals, t) ==
    LET idx == FindCol("end_date")
    IN  IF idx = 0 \/ idx > Len(row_vals) THEN FALSE
        ELSE LET pu == ParseSheetDateStr(row_vals[idx])
             IN  pu # NoDate /\ DateLE(t, pu)

\* The store calls of one on_join_request run are numbered in the order the
\* code makes them: call 1 is sheet.findall, and cell k of the result costs
\* call 2k (sheet.row_values of its row) and call 2k + 1 (the header read of
\* _find_col).  `bad` is the number of the call that raises, 0 for none.
\* The loop over the cells: "eligible", "none" or "error".
RECURSIVE ScanCells(_, _, _, _, _)
ScanCells(s, cells, k, bad, t) ==
    IF k > Len(cells) THEN "none"
    ELSE IF bad = 2 * k \/ bad = 2 * k + 1 THEN "error"
    ELSE IF RowIsPaid(RowValues(s[cells[k][1] - 1]), t) THEN "eligible"
    ELSE ScanCells(s, cells, k + 1, bad, t)

\* the lookup part of on_join_request for the identity uid
JoinLookup(s, uid, bad, t) ==
    IF bad = 1 THEN "error"
    ELSE ScanCells(s, FindAll(s, StrOfInt(uid)), 1, bad, t)

\* the calls on_join_request makes to the membership system, each with
\* whether it succeeded, given the lookup's result and which calls raise:
\* approve_ok and decline_ok are the calls of the try block, handler_ok the
\* decline of the except block
JoinCalls(look, approve_ok, decline_ok, handler_ok) ==
    IF look = "eligible" THEN
        IF approve_ok THEN << <<"approve", TRUE>> >>
        ELSE << <<"approve", FALSE>>, <<"decline", handler_ok>> >>
    ELSE IF look = "none" THEN
        IF decline_ok THEN << <<"decline", TRUE>> >>
        ELSE << <<"decline", FALSE>>, <<"decline", handler_ok>> >>
    ELSE << <<"decline", handler_ok>> >>

\* approve_chat_join_request that succeeds makes the requester a member
ChanAfterJoin(c, uid, calls) ==
    IF \E k \in 1..Len(calls) : calls[k] = <<"approve", TRUE>>
    THEN [c EXCEPT ![uid] = "member"]
    ELSE c

\* what a later run can be compared with: the last event without its own past
LastEvent(e) ==
    IF e.op = "approve"
    THEN [op |-> e.op, uid |-> e.uid, day |-> e.day, snap |-> e.snap,
          saved |-> e.saved, row |-> e.row, end |-> e.end]
    ELSE [op |-> e.op]

\* on_join_request: any one store call may raise, and so may each call to
\* the membership system
JoinRequest(uid) ==
    \E look \in { JoinLookup(sheet, uid, bad, today) :
                    bad \in 0..(2 * Len(FindAll(sheet, StrOfInt(uid))) + 1) } :
      \E calls \in { JoinCalls(look, a, d, h) : a \in BOOLEAN, d \in BOOLEAN, h \in BOOLEAN } :
        /\ ev' = [op |-> "join", uid |-> uid, day |-> today, look |-> look,
                  calls |-> calls, prev |-> LastEvent(ev)]
        /\ chan' = ChanAfterJoin(chan, uid, calls)
        /\ UNCHANGED <<sheet, today, end_day, reminder_state>>

-----------------------------------------------------------------------------
(* Helpers of the two passes that delete rows *)

\* sorted(S, reverse=True) for a set S of row numbers
RECURSIVE SortDesc(_)
SortDesc(S) ==
    IF S = {} THEN <<>>
    ELSE LET m == CHOOSE x \in S : \A y \in S : y <= x
         IN  <<m>> \o SortDesc(S \ {m})

\* the sets of at most n of the calls in C: the calls that raise in one run
RECURSIVE FaultSets(_, _)
FaultSets(C, n) ==
    IF n = 0 THEN {{}}
    ELSE LET P == FaultSets(C, n - 1)
         IN  P \cup { p \cup {x} : p \in P, x \in C }

\* the worksheet after sheet.delete_rows(a, b) with a <= b: rows a..b are gone
\* and the rows below them have moved up (a row below the last data row is
\* an empty row of the grid)
StoreDeleteRows(s, a, b) ==
    SubSeq(s, 1, IF a - 2 < Len(s) THEN a - 2 ELSE Len(s)) \o SubSeq(s, b, Len(s))

\* sheet.delete_rows(a, b) asks the store to delete the row range with
\* startIndex a - 1 and endIndex b; the store rejects a range that is empty
\* or reversed, and the call raises
DeleteRowsRaises(a, b) == a - 1 >= b

-----------------------------------------------------------------------------
(* /purge_dups *)

\* per_uid: <<row, uid, pu>> for every data row whose user_id cell is an int
PurgeItems(s) ==
    LET pu == [i \in 1..Len(s) |-> ParseSheetDateStr(s[i][FindCol("end_date")])]
    IN  { <<i + 1, IntOfText(s[i][FindCol("user_id")]), pu[i]>> :
            i \in { j \in 1..Len(s) : IsIntText(s[j][FindCol("user_id")]) } }

PurgeKeyLowRowWins(a, b) ==
    LET ka == IF a[3] = NoDate THEN DateMin ELSE a[3]
        kb == IF b[3] = NoDate THEN DateMin ELSE b[3]
    IN  DateLT(ka, kb) \/ (ka = kb /\ a[1] > b[1])

PurgeKeyUnknownHighest(a, b) ==
    LET ka == IF a[3] = NoDate THEN <<9999, 12, 31>> ELSE a[3]
        kb == IF b[3] = NoDate THEN <<9999, 12, 31>> ELSE b[3]
    IN  DateLT(ka, kb) \/ (ka = kb /\ a[1] < b[1])

\* the order of the sort key (x[1] or date.min, x[0]): a sorts before b
PurgeKeyLT(a, b) ==
    LET ka == IF a[3] = NoDate THEN DateMin ELSE a[3]
        kb == IF b[3] = NoDate THEN DateMin ELSE b[3]
    IN  DateLT(ka, kb) \/ (ka = kb /\ a[1] < b[1])

\* sorted(items, key=..., reverse=True)
RECURSIVE PurgeSorted(_)
PurgeSorted(items) ==
    IF items = {} THEN <<>>
    ELSE LET m == CHOOSE x \in items : \A y \in items \ {x} : PurgeKeyLT(y, x)
         IN  <<m>> \o PurgeSorted(items \ {m})

PurgeRestAll(items) ==
    IF Cardinality(items) <= 1 THEN {}
    ELSE { it[1] : it \in items }

\* the rows of items_sorted[1:] for the items of one uid; none when the uid
\* has a single row
PurgeRest(items) ==
    IF Cardinality(items) <= 1 THEN {}
    ELSE LET items_sorted == PurgeSorted(items)
         IN  { items_sorted[k][1] : k \in 2..Len(items_sorted) }

\* to_delete
PurgeToDelete(s) ==
    LET per_uid == PurgeItems(s)
    IN  UNION { PurgeRest({ it \in per_uid : it[2] = uid }) :
                  uid \in { it[2] : it \in per_uid } }

PurgeOrderAscending(S) ==
    LET d == SortDesc(S) IN [k \in 1..Len(d) |-> d[Len(d) + 1 - k]]

\* the order in which the rows of to_delete are deleted
PurgeOrder(S) == SortDesc(S)

\* the loop of sheet.delete_rows(r) calls; the calls in `faults` raise
RECURSIVE PurgeApply(_, _, _, _)
PurgeApply(s, td, k, faults) ==
    IF k > Len(td) THEN [sheet |-> s, deleted |-> 0, removed |-> {}]
    ELSE IF <<"delete", k>> \in faults THEN PurgeApply(s, td, k + 1, faults)
    ELSE LET r == PurgeApply(StoreDeleteRows(s, td[k], td[k]), td, k + 1, faults)
         IN  [sheet |-> r.sheet, deleted |-> r.deleted + 1,
              removed |-> r.removed \cup {td[k]}]

\* purge_duplicate_rows once the sheet has been read and to_delete (marked)
\* computed: what the run did and the worksheet it leaves
PurgeRun(s, marked, faults) ==
    LET r == PurgeApply(s, PurgeOrder(marked), 1, faults)
    IN  [ev |-> [op |-> "purge", read |-> "ok", snap |-> s, marked |-> marked,
                 order |-> PurgeOrder(marked),
                 removed |-> r.removed, deleted |-> r.deleted,
                 reply |-> IF marked = {} THEN "no_duplicates" ELSE "deleted"],
         sheet |-> r.sheet]

\* history: the last handler run was a purge that marked rows and deleted
\* every one of them
PurgedClean ==
    /\ ev.op = "purge" /\ ev.read = "ok"
    /\ ev.marked # {} /\ ev.removed = ev.marked

\* purge_duplicate_rows by the operator: sheet.get_all_values() may raise (a
\* reply, nothing else), and so may every sheet.delete_rows
PurgeDups ==
    \/ /\ ev' = [op |-> "purge", read |-> "failed", snap |-> sheet, marked |-> {},
                 order |-> <<>>, removed |-> {}, deleted |-> 0,
                 reply |-> "read_failed", again |-> FALSE]
       /\ UNCHANGED <<sheet, today, end_day, chan, reminder_state>>
    \/ LET marked == PurgeToDelete(sheet)
       IN  \E out \in { PurgeRun(sheet, marked, F) :
                          F \in FaultSets({ <<"delete", k>> : k \in 1..Cardinality(marked) },
                                          MaxFaults) } :
            /\ ev' = out.ev @@ [again |-> PurgedClean]
            /\ sheet' = out.sheet
            /\ UNCHANGED <<today, end_day, chan, reminder_state>>

-----------------------------------------------------------------------------
(* /clean *)

\* by_user: <<row, uid, end_dt>> for every record of sheet.get_all_records()
\* with an int user_id and a parseable end date
CleanItems(s) ==
    LET end_dt == [i \in 1..Len(s) |-> ParseSheetDateVal(s[i][FindCol("end_date")])]
    IN  { <<i + 1, IntOfText(s[i][FindCol("user_id")]), end_dt[i]>> :
            i \in { j \in 1..Len(s) :
                      IsIntText(s[j][FindCol("user_id")]) /\ end_dt[j] # NoDate } }

\* max_end of every uid of by_user
CleanMaxEnd(by_user) ==
    [uid \in { it[2] : it \in by_user } |->
        LET ds == { it[3] : it \in { x \in by_user : x[2] = uid } }
        IN  CHOOSE d \in ds : \A e \in ds : DateLE(e, d)]

\* month_start = today.replace(day=19)
MonthStart(t) == <<t[1], t[2], 19>>

\* users_to_kick
CleanKick(max_end, t) == { uid \in DOMAIN max_end : DateLT(max_end[uid], MonthStart(t)) }

CleanToDeleteSparesKicked(by_user, max_end, kick) ==
    { it[1] : it \in { x \in by_user : DateLT(x[3], max_end[x[2]]) } }

\* rows_to_delete: every row of a uid to kick, and of the others the rows
\* whose end date is before the uid's max_end
CleanToDelete(by_user, max_end, kick) ==
    { it[1] : it \in { x \in by_user : x[2] \in kick \/ DateLT(x[3], max_end[x[2]]) } }

\* rngs: the descending list to_delete cut into runs of consecutive rows,
\* each appended as (endr, start), the lowest row of the run first
RECURSIVE CleanRangesFrom(_, _, _, _)
CleanRangesFrom(td, k, start, endr) ==
    IF k > Len(td) THEN << <<endr, start>> >>
    ELSE IF td[k] = endr - 1 THEN CleanRangesFrom(td, k + 1, start, td[k])
    ELSE << <<endr, start>> >> \o CleanRangesFrom(td, k + 1, td[k], td[k])

CleanRanges(marked) ==
    IF marked = {} THEN <<>>
    ELSE LET to_delete == SortDesc(marked)
         IN  CleanRangesFrom(to_delete, 2, to_delete[1], to_delete[1])

RECURSIVE CleanApplyCountsSpan(_, _, _, _)
CleanApplyCountsSpan(s, rngs, k, faults) ==
    IF k > Len(rngs) THEN [sheet |-> s, deleted |-> 0, removed |-> {}, raised |-> {}]
    ELSE IF <<"delete", k>> \in faults \/ DeleteRowsRaises(rngs[k][2], rngs[k][1])
    THEN LET r == CleanApplyCountsSpan(s, rngs, k + 1, faults)
         IN  [sheet |-> r.sheet, deleted |-> r.deleted, removed |-> r.removed,
              raised |-> r.raised \cup {k}]
    ELSE LET r == CleanApplyCountsSpan(StoreDeleteRows(s, rngs[k][2], rngs[k][1]),
                                       rngs, k + 1, faults)
         IN  [sheet |-> r.sheet, deleted |-> r.deleted + (rngs[k][1] - rngs[k][2]),
              removed |-> r.removed \cup (rngs[k][2]..rngs[k][1]),
              raised |-> r.raised]

\* the loop "for r_from, r_to in rngs": sheet.delete_rows(r_to, r_from) and,
\* when it did not raise, deleted += r_from - r_to + 1
RECURSIVE CleanApply(_, _, _, _)
CleanApply(s, rngs, k, faults) ==
    IF k > Len(rngs) THEN [sheet |-> s, deleted |-> 0, removed |-> {}, raised |-> {}]
    ELSE IF <<"delete", k>> \in faults \/ DeleteRowsRaises(rngs[k][2], rngs[k][1])
    THEN LET r == CleanApply(s, rngs, k + 1, faults)
         IN  [sheet |-> r.sheet, deleted |-> r.deleted, removed |-> r.removed,
              raised |-> r.raised \cup {k}]
    ELSE LET r == CleanApply(StoreDeleteRows(s, rngs[k][2], rngs[k][1]), rngs, k + 1, faults)
         IN  [sheet |-> r.sheet, deleted |-> r.deleted + (rngs[k][1] - rngs[k][2] + 1),
              removed |-> r.removed \cup (rngs[k][2]..rngs[k][1]),
              raised |-> r.raised]

\* safe_kick(user_id) on the channel c: the calls it makes, each with whether
\* it succeeded, and the channel it leaves
SafeKick(c, uid, faults) ==
    LET looked == <<"get_chat_member", uid>> \notin faults
        first == << <<"get_chat_member", uid, looked>> >>
    IN  IF looked /\ c[uid] \in {"creator", "administrator", "left", "kicked"}
        THEN [chan |-> c, calls |-> first]
        ELSE IF <<"ban", uid>> \in faults
        THEN [chan |-> c, calls |-> first \o << <<"ban", uid, FALSE>> >>]
        ELSE IF <<"unban", uid>> \in faults
        THEN [chan |-> [c EXCEPT ![uid] = "kicked"],
              calls |-> first \o << <<"ban", uid, TRUE>>, <<"unban", uid, FALSE>> >>]
        ELSE [chan |-> [c EXCEPT ![uid] = "left"],
              calls |-> first \o << <<"ban", uid, TRUE>>, <<"unban", uid, TRUE>> >>]

\* for uid in users_to_kick: await safe_kick(uid), the uids in the order us
RECURSIVE KickAll(_, _, _, _)
KickAll(c, us, k, faults) ==
    IF k > Len(us) THEN [chan |-> c, calls |-> <<>>]
    ELSE LET one == SafeKick(c, us[k], faults)
         IN  LET rest == KickAll(one.chan, us, k + 1, faults)
             IN  [chan |-> rest.chan, calls |-> one.calls \o rest.calls]

\* what remove_expired_subscribers decides from the records and the day
CleanPlan(s, t) ==
    LET by_user == CleanItems(s)
    IN  LET max_end == CleanMaxEnd(by_user)
        IN  LET kick == CleanKick(max_end, t)
            IN  LET marked == CleanToDelete(by_user, max_end, kick)
                IN  [kick |-> kick, marked |-> marked, rngs |-> CleanRanges(marked)]

\* the calls of one run that may raise, among the kinds of call `kinds`
CleanCallIds(plan, kinds) ==
    { <<c, uid>> : c \in {"get_chat_member", "ban", "unban"} \cap kinds, uid \in plan.kick }
    \cup { <<c, k>> : c \in {"delete"} \cap kinds, k \in 1..Len(plan.rngs) }

\* remove_expired_subscribers once sheet.get_all_records() has returned: what
\* the run did, the worksheet and the channel it leaves
CleanRun(s, c, t, plan, faults) ==
    LET order == SortDesc(plan.kick)
    IN  LET kicked == KickAll(c, [k \in 1..Len(order) |-> order[Len(order) + 1 - k]], 1, faults)
            r == CleanApply(s, plan.rngs, 1, faults)
        IN  [ev |-> [op |-> "clean", read |-> "ok", day |-> t, snap |-> s, was |-> c,
                     kick |-> plan.kick, marked |-> plan.marked, rngs |-> plan.rngs,
                     deletes |-> [k \in 1..Len(plan.rngs) |->
                                    <<plan.rngs[k][2], plan.rngs[k][1], k \notin r.raised>>],
                     raised |-> r.raised, removed |-> r.removed, deleted |-> r.deleted,
                     calls |-> kicked.calls],
             sheet |-> r.sheet,
             chan |-> kicked.chan]

\* /clean by the operator: sheet.get_all_records() may raise (the pass ends
\* there), and so may every later call of one of the kinds `kinds`
Clean(kinds) ==
    \/ /\ ev' = [op |-> "clean", read |-> "failed", day |-> today, snap |-> sheet,
                 was |-> chan, kick |-> {}, marked |-> {}, rngs |-> <<>>,
                 deletes |-> <<>>, raised |-> {},
                 removed |-> {}, deleted |-> 0, calls |-> <<>>]
       /\ UNCHANGED <<sheet, today, end_day, chan, reminder_state>>
    \/ LET plan == CleanPlan(sheet, today)
       IN  \E out \in { CleanRun(sheet, chan, today, plan, F) :
                          F \in FaultSets(CleanCallIds(plan, kinds), MaxFaults) } :
            /\ ev' = out.ev
            /\ sheet' = out.sheet
            /\ chan' = out.chan
            /\ UNCHANGED <<today, end_day, reminder_state>>

-----------------------------------------------------------------------------
(* Approval and upsert *)

\* f"@{raw_username}" if raw_username else f"id{target_id}"
UsernameText(uid, raw) == IF raw # <<>> THEN <<AT>> \o raw ELSE <<ID, uid>>

\* _write_row_by_headers(row_dict) for the row_dict of _approve_user
ApproveValues(uid, info, t, end_date) ==
    [c \in 1..NCols |->
        CASE Header[c] = "user_id" -> StrOfInt(uid)
          [] Header[c] = "username" -> UsernameText(uid, info.username)
          [] Header[c] = "paid_at" -> IsoFormat(t)
          [] Header[c] = "end_date" -> IsoFormat(end_date)
          [] Header[c] = "notified" -> <<NO>>
          [] Header[c] = "status" -> <<ACTIVE>>
          [] Header[c] = "full_name" -> info.full_name
          [] OTHER -> <<>>]

StoreUpdateRowSkipsBlanks(s, r, values) ==
    [s EXCEPT ![r - 1] = [c \in 1..NCols |->
                            IF values[c] = <<>> THEN s[r - 1][c] ELSE values[c]]]

\* sheet.update over the whole of worksheet row r
StoreUpdateRow(s, r, values) == [s EXCEPT ![r - 1] = values]

\* sheet.append_row
StoreAppendRow(s, values) == Append(s, values)

UpsertAlwaysAppends(s, uid, values) ==
    [sheet |-> StoreAppendRow(s, values), row |-> Len(s) + 2, appended |-> TRUE]

\* the write of _approve_user: over the row of the first cell that findall
\* returns, or a new last row when it returns none
Upsert(s, uid, values) ==
    LET matches == FindAll(s, StrOfInt(uid))
    IN  IF matches # <<>>
        THEN [sheet |-> StoreUpdateRow(s, matches[1][1], values),
              row |-> matches[1][1], appended |-> FALSE]
        ELSE [sheet |-> StoreAppendRow(s, values),
              row |-> Len(s) + 2, appended |-> TRUE]

\* the calls for the invite link after the row is saved: deliv is "ok",
\* "link_failed" (create_chat_invite_link raised) or "dm_failed" (the message
\* with the link could not be sent to the requester)
ApproveCalls(uid, deliv) ==
    IF deliv = "link_failed" THEN << <<"create_chat_invite_link", FALSE>> >>
    ELSE << <<"create_chat_invite_link", TRUE>>, <<"send_message", uid, deliv = "ok">> >>

ApproveReplyAlwaysGranted(fault, ok) ==
    IF fault = "headers" THEN "none"
    ELSE IF fault = "store" THEN "save_failed"
    ELSE "approved"

ApproveReplyIgnoresSave(fault, ok) ==
    IF fault = "headers" THEN "none"
    ELSE IF ok THEN "approved" ELSE "approved_no_link"

\* what the operator is told
ApproveReply(fault, ok) ==
    IF fault = "headers" THEN "none"
    ELSE IF fault = "store" THEN "save_failed"
    ELSE IF ok THEN "approved" ELSE "approved_no_link"

\* the run of _approve_user(target_id) on the day t with the configured end day
\* ed, after the event e.  fault: "headers" when _ensure_headers_ru raises
\* (the handler ends with no reply), "store" when a call of the try block
\* raises; deliv: how the creation and the delivery of the invite link go
ApproveUser(s, e, t, ed, uid, info, fault, deliv) ==
    LET end_date == CalcEndDate(t, ed)
        up == Upsert(s, uid, ApproveValues(uid, info, t, end_date))
        saved == fault = "none"
    IN  [sheet |-> IF saved THEN up.sheet ELSE s,
         ev |-> [op |-> "approve", uid |-> uid, day |-> t, snap |-> s,
                 info |-> info, fault |-> fault, saved |-> saved,
                 row |-> IF saved THEN up.row ELSE 0,
                 appended |-> saved /\ up.appended,
                 end |-> IsoFormat(end_date),
                 calls |-> IF saved THEN ApproveCalls(uid, deliv) ELSE <<>>,
                 reply |-> ApproveReply(fault, deliv = "ok"),
                 prev |-> LastEvent(e)]]

\* approve_cmd and admin_approve_button for the identity uid, with what
\* users_waiting may hold for it
Approve(uid, infos) ==
    \E out \in { ApproveUser(sheet, ev, today, end_day, uid, info, f, d) :
                    info \in infos, f \in {"none", "headers", "store"},
                    d \in {"ok", "link_failed", "dm_failed"} } :
        /\ sheet' = out.sheet
        /\ ev' = out.ev
        /\ UNCHANGED <<today, end_day, chan, reminder_state>>

SetEndDayAnyNumber(args) ==
    LET reply == IF args = <<>> THEN "usage"
                 ELSE IF ~IsIntText(args[1]) THEN "not_a_number"
                 ELSE "set"
    IN  /\ end_day' = IF reply = "set" THEN IntOfText(args[1]) ELSE end_day
        /\ ev' = [op |-> "set_end_day", args |-> args, was |-> end_day, reply |-> reply]
        /\ UNCHANGED <<sheet, today, chan, reminder_state>>

\* set_end_day with context.args = args
SetEndDay(args) ==
    LET reply == IF args = <<>> THEN "usage"
                 ELSE IF ~IsIntText(args[1]) THEN "not_a_number"
                 ELSE IF ~(1 <= IntOfText(args[1]) /\ IntOfText(args[1]) <= 28)
                      THEN "out_of_range"
                 ELSE "set"
    IN  /\ end_day' = IF reply = "set" THEN IntOfText(args[1]) ELSE end_day
        /\ ev' = [op |-> "set_end_day", args |-> args, was |-> end_day, reply |-> reply]
        /\ UNCHANGED <<sheet, today, chan, reminder_state>>

-----------------------------------------------------------------------------
(* The reminder campaign *)

\* reminder_state when the module is loaded; the text is "default" until
\* the operator replaces it
ReminderInit ==
    [delete_date |-> NoDate, text |-> "default", link |-> "none", link_expire_ts |-> 0]

\* set_delete_date with context.args = args
SetDeleteDate(args) ==
    LET reply == IF args = <<>> THEN "usage"
                 ELSE IF ~ParsesIso(args[1]) THEN "bad_date"
                 ELSE "set"
    IN  /\ reminder_state' =
              IF reply = "set"
              THEN [reminder_state EXCEPT !.delete_date = <<args[1][1], args[1][3], args[1][5]>>]
              ELSE reminder_state
        /\ ev' = [op |-> "set_delete_date", args |-> args,
                  was |-> reminder_state.delete_date, reply |-> reply]
        /\ UNCHANGED <<sheet, today, end_day, chan>>

\* set_reminder_text with or without a text after the command
SetReminderText(has_text) ==
    /\ reminder_state' =
          IF has_text THEN [reminder_state EXCEPT !.text = "custom"] ELSE reminder_state
    /\ ev' = [op |-> "set_reminder_text", reply |-> IF has_text THEN "set" ELSE "usage"]
    /\ UNCHANGED <<sheet, today, end_day, chan>>

-----------------------------------------------------------------------------
(* /audit *)

\* by_uid: <<row, uid, pu>> for every data row whose user_id cell is an int
AuditItems(s) ==
    LET pu == [i \in 1..Len(s) |-> ParseSheetDateStr(s[i][FindCol("end_date")])]
    IN  { <<i + 1, IntOfText(s[i][FindCol("user_id")]), pu[i]>> :
            i \in { j \in 1..Len(s) : IsIntText(s[j][FindCol("user_id")]) } }

\* the keys of a dict filled row by row, in the order of their first rows
RECURSIVE FirstSeenOrder(_)
FirstSeenOrder(items) ==
    IF items = {} THEN <<>>
    ELSE LET f == CHOOSE x \in items : \A y \in items : x[1] <= y[1]
         IN  <<f[2]>> \o FirstSeenOrder({ y \in items : y[2] # f[2] })

\* member.status of get_chat_member for uid; somebody the channel has never
\* seen has left
ChanStatus(c, uid) == IF uid \in DOMAIN c THEN c[uid] ELSE "left"

AuditInChatRaisedIsPresent(c, uid, faults) ==
    uid \in faults \/ ChanStatus(c, uid) \in {"member", "administrator", "creator"}

\* in_chat: the lookup of uid did not raise and found a member
AuditInChat(c, uid, faults) ==
    uid \notin faults /\ ChanStatus(c, uid) \in {"member", "administrator", "creator"}

\* unique_present
AuditPresent(uids, c, faults) == { uid \in uids : AuditInChat(c, uid, faults) }

AuditAbsentOnlyLookedUp(uids, c, faults) ==
    { uid \in uids : uid \notin faults /\ ~AuditInChat(c, uid, faults) }

\* unique_absent
AuditAbsent(uids, c, faults) == { uid \in uids : ~AuditInChat(c, uid, faults) }

AuditToRestoreAnyRow(items, absent, t) ==
    SelectSeq(FirstSeenOrder(items),
              LAMBDA uid : uid \in absent)

\* to_restore: the absent uids whose max_pu exists and is not before t
AuditToRestore(items, absent, t) ==
    SelectSeq(FirstSeenOrder(items),
              LAMBDA uid :
                LET known == { x[3] : x \in { y \in items : y[2] = uid /\ y[3] # NoDate } }
                IN  /\ uid \in absent
                    /\ known # {}
                    /\ DateLE(t, CHOOSE d \in known : \A e \in known : DateLE(e, d)))

AuditValuesNoForRest(s, items, present) ==
    [i \in 1..Len(s) |->
        IF \E x \in items : x[1] = i + 1 /\ x[2] \in present THEN <<YES>> ELSE <<NO>>]

\* values: status_map.get(row_num, "") for the rows 2 .. 1 + total_rows
AuditValues(s, items, present) ==
    [i \in 1..Len(s) |->
        IF \E x \in items : x[1] = i + 1
        THEN LET x == CHOOSE y \in items : y[1] = i + 1
             IN  IF x[2] \in present THEN <<YES>> ELSE <<NO>>
        ELSE <<>>]

StoreUpdateColumnBlanksRest(s, col, values) ==
    [i \in 1..Len(s) |->
        IF i <= Len(values) THEN [BlankRow EXCEPT ![col] = values[i]] ELSE s[i]]

\* sheet.update over the cells of column col in the rows 2 .. 1 + Len(values)
StoreUpdateColumn(s, col, values) ==
    [i \in 1..Len(s) |-> IF i <= Len(values) THEN [s[i] EXCEPT ![col] = values[i]] ELSE s[i]]

\* ADMIN_ID, the id of the operator, among the ids of those who write to the bot
ADMIN_ID == "operator"

\* the calls audit_subscribers makes to the membership system: the member
\* count (whose failure only changes the report), one get_chat_member for
\* every uid of by_uid, and the report sent to the operator
AuditCalls(looked, faults) ==
    << <<"get_chat_member_count">> >>
    \o [k \in 1..Len(looked) |-> <<"get_chat_member", looked[k], looked[k] \notin faults>>]
    \o << <<"send_message", ADMIN_ID>> >>

\* audit_subscribers once sheet.get_all_values() has returned.  faults: the
\* uids whose get_chat_member raises; write_ok: no call of the block that
\* updates the in_channel column raises
AuditRun(s, c, t, items, faults, write_ok) ==
    LET uids == { x[2] : x \in items }
    IN  LET present == AuditPresent(uids, c, faults)
            absent == AuditAbsent(uids, c, faults)
            values == AuditValues(s, items, present)
        IN  [ev |-> [op |-> "audit", read |-> "ok", day |-> t, snap |-> s,
                     was |-> c, looked |-> FirstSeenOrder(items), raised |-> faults,
                     calls |-> AuditCalls(FirstSeenOrder(items), faults),
                     unique_present |-> present, unique_absent |-> absent,
                     to_restore |-> AuditToRestore(items, absent, t),
                     uniq_total |-> Cardinality(uids),
                     updates |-> IF write_ok
                                 THEN << [col |-> FindCol("in_channel"), first |-> 2,
                                          last |-> 1 + Len(s), values |-> values] >>
                                 ELSE <<>>],
             sheet |-> IF write_ok
                       THEN StoreUpdateColumn(s, FindCol("in_channel"), values)
                       ELSE s]

\* /audit by the operator: sheet.get_all_values() may raise (the pass ends
\* there with a reply), and so may every get_chat_member and the update of
\* the column
Audit ==
    \/ /\ ev' = [op |-> "audit", read |-> "failed", day |-> today, snap |-> sheet,
                 was |-> chan, looked |-> <<>>, raised |-> {},
                 calls |-> << <<"get_chat_member_count">> >>, unique_present |-> {},
                 unique_absent |-> {}, to_restore |-> <<>>, uniq_total |-> 0,
                 updates |-> <<>>]
       /\ UNCHANGED <<sheet, today, end_day, chan, reminder_state>>
    \/ LET items == AuditItems(sheet)
       IN  \E out \in { AuditRun(sheet, chan, today, items, F, w) :
                          F \in SUBSET { x[2] : x \in items }, w \in BOOLEAN } :
            /\ ev' = out.ev
            /\ sheet' = out.sheet
            /\ UNCHANGED <<today, end_day, chan, reminder_state>>

-----------------------------------------------------------------------------
(* Broadcasts *)

\* the rows a broadcast looks at: <<row, uid>> for every data row whose
\* user_id cell is an int
BroadcastRows(s) ==
    { <<i + 1, IntOfText(s[i][FindCol("user_id")])>> :
        i \in { j \in 1..Len(s) : IsIntText(s[j][FindCol("user_id")]) } }

BroadcastTargetsEveryRow(s) ==
    LET rows == SortDesc({ x[1] : x \in BroadcastRows(s) })
    IN  [k \in 1..Len(rows) |-> IntOfText(s[rows[Len(rows) + 1 - k] - 1][FindCol("user_id")])]

\* targets of broadcast: every uid once, in the order of the rows that
\* name them first (the `seen` set)
BroadcastTargets(s) == FirstSeenOrder(BroadcastRows(s))

\* the test of broadcast_paid_absent on data row i of s: pu is known and not
\* before t, and the in_channel cell is not "yes"
PaidAbsentRow(s, i, t) ==
    LET pu == ParseSheetDateStr(s[i][FindCol("end_date")])
    IN  pu # NoDate /\ DateLE(t, pu) /\ s[i][FindCol("in_channel")] # <<YES>>

\* targets of broadcast_paid_absent: the uids whose first row passes the test
PaidAbsentTargets(s, t) ==
    LET rows == BroadcastRows(s)
    IN  SelectSeq(FirstSeenOrder(rows),
                  LAMBDA uid :
                    LET first == CHOOSE x \in rows :
                                   x[2] = uid /\ \A y \in rows : y[2] = uid => x[1] <= y[1]
                    IN  PaidAbsentRow(s, first[1] - 1, t))

DispatchStopsAtFailure(targets, k, fails) ==
    LET bad == { j \in 1..Len(targets) : j \in fails }
        n == IF bad = {} THEN Len(targets) ELSE CHOOSE j \in bad : \A i \in bad : j <= i
    IN  [sends |-> [j \in 1..n |-> <<targets[j], j \notin fails>>],
         sent |-> Cardinality({ j \in 1..n : j \notin fails }),
         failed |-> Cardinality({ j \in 1..n : j \in fails })]

\* the delivery loop from target k on; fails: the positions whose
\* send_message raises
RECURSIVE Dispatch(_, _, _)
Dispatch(targets, k, fails) ==
    IF k > Len(targets) THEN [sends |-> <<>>, sent |-> 0, failed |-> 0]
    ELSE LET rest == Dispatch(targets, k + 1, fails)
         IN  [sends |-> << <<targets[k], k \notin fails>> >> \o rest.sends,
              sent |-> rest.sent + (IF k \in fails THEN 0 ELSE 1),
              failed |-> rest.failed + (IF k \in fails THEN 1 ELSE 0)]

\* the event of one broadcast run; how: "usage" (no text), "read_failed",
\* "header_failed" (the header read of _find_col raised), "no_targets",
\* "start_failed" (the reply that announces the pass raised), or "done"
BroadcastEvent(op, how, s, t, targets, d) ==
    [op |-> op, how |-> how, snap |-> s, day |-> t, targets |-> targets,
     sends |-> d.sends, sent |-> d.sent, failed |-> d.failed]

\* the runs of a broadcast over the targets: every way it can end
BroadcastRuns(op, s, t, targets) ==
    LET none == [sends |-> <<>>, sent |-> 0, failed |-> 0]
    IN  { BroadcastEvent(op, how, s, t, <<>>, none) :
            how \in {"usage", "read_failed", "header_failed"} }
        \cup (IF targets = <<>>
              THEN { BroadcastEvent(op, "no_targets", s, t, targets, none) }
              ELSE { BroadcastEvent(op, "start_failed", s, t, targets, none) }
                   \cup { BroadcastEvent(op, "done", s, t, targets,
                                         Dispatch(targets, 1, fails)) :
                            fails \in SUBSET (1..Len(targets)) })

\* /broadcast by the operator
Broadcast ==
    /\ ev' \in BroadcastRuns("broadcast", sheet, today, BroadcastTargets(sheet))
    /\ UNCHANGED <<sheet, today, end_day, chan, reminder_state>>

\* /broadcast_paid_absent by the operator
BroadcastPaidAbsent ==
    /\ ev' \in BroadcastRuns("broadcast_paid_absent", sheet, today,
                             PaidAbsentTargets(sheet, today))
    /\ UNCHANGED <<sheet, today, end_day, chan, reminder_state>>

-----------------------------------------------------------------------------
(* Who may command *)

Callers == {ADMIN_ID, "visitor"}

\* the commands that begin with `if update.effective_user.id != ADMIN_ID: return`
OperatorCommands ==
    {"approve", "clean", "audit", "restore_paid_absent", "purge_dups", "broadcast",
     "broadcast_paid_absent", "broadcast_link", "set_delete_date",
     "set_reminder_text", "set_end_day", "remind_unpaid", "remind_all"}

RefusedWithReply(who, cmd) ==
    /\ who # ADMIN_ID
    /\ ev' = [op |-> "refused", cmd |-> cmd, by |-> who,
              before |-> <<sheet, chan, end_day, reminder_state>>,
              messages |-> << <<"reply", who>> >>]
    /\ UNCHANGED <<sheet, today, end_day, chan, reminder_state>>

\* a command sent by somebody who is not the operator: the handler returns
Refused(who, cmd) ==
    /\ who # ADMIN_ID
    /\ ev' = [op |-> "refused", cmd |-> cmd, by |-> who,
              before |-> <<sheet, chan, end_day, reminder_state>>,
              messages |-> <<>>]
    /\ UNCHANGED <<sheet, today, end_day, chan, reminder_state>>

\* the Approve button pressed by somebody who is not the operator:
\* query.answer with an alert for that caller, then return
RefusedButton(who) ==
    /\ who # ADMIN_ID
    /\ ev' = [op |-> "refused", cmd |-> "approve_button", by |-> who,
              before |-> <<sheet, chan, end_day, reminder_state>>,
              messages |-> << <<"answer_alert", who>> >>]
    /\ UNCHANGED <<sheet, today, end_day, chan, reminder_state>>

\* a command handler: the guard, then the handler's run A for the operator
Command(who, cmd, A) == IF who # ADMIN_ID THEN Refused(who, cmd) ELSE A

\* admin_approve_button for the callback data approve:<uid>
ApproveButton(who, uid, infos) ==
    IF who # ADMIN_ID THEN RefusedButton(who) ELSE Approve(uid, infos)

-----------------------------------------------------------------------------
(* Environment: the identities, the clock *)

\* the Telegram user ids that send requests
Users == {1, 2}

\* datetime.utcnow().date() moves on, to a later day of D
Tick(D) ==
    /\ \E d \in D : DateLT(today, d) /\ today' = d
    /\ ev' = [op |-> "tick"]
    /\ UNCHANGED <<sheet, end_day, chan, reminder_state>>

\* all sequences over S of length at most n
SeqsUpTo(S, n) == UNION {[1..k -> S] : k \in 0..n}

-----------------------------------------------------------------------------
(* The gatekeeper over hand-edited ledgers *)

\* the days on which join requests arrive
Days == {<<2025, 1, 15>>, <<2025, 2, 20>>, <<2025, 2, 21>>}

\* a day as the sheet shows it in the "%d.%m.%Y" and "%d/%m/%Y" locales
DmyFormat(d, sep) == <<d[3], sep, d[2], sep, d[1]>>

\* end-date cells with the date each one denotes (NoDate: none)
GateEndCells ==
    { [text |-> IsoFormat(<<2025, 2, 20>>), date |-> <<2025, 2, 20>>],
      [text |-> DmyFormat(<<2025, 1, 15>>, DOT), date |-> <<2025, 1, 15>>],
      [text |-> DmyFormat(<<2025, 2, 21>>, SLASH), date |-> <<2025, 2, 21>>],
      [text |-> DmyFormat(<<2025, 2, 20>>, DASH), date |-> NoDate],
      [text |-> <<>>, date |-> NoDate] }

\* rows typed by hand; in some the full-name cell of one subscriber holds
\* the digits of another subscriber's id
GateRows ==
    { MkRow(StrOfInt(u), e.text, <<>>) : u \in Users, e \in GateEndCells }
    \cup { MkRow(StrOfInt(2), e, StrOfInt(1)) : e \in {IsoFormat(<<2025, 2, 20>>), <<>>} }

InitGate ==
    /\ sheet \in SeqsUpTo(GateRows, MaxRowsGate)
    /\ today \in Days
    /\ end_day = 20
    /\ chan = [u \in Users |-> "left"]
    /\ reminder_state = ReminderInit
    /\ ev = [op |-> "init"]

NextGate == (\E u \in Users : JoinRequest(u)) \/ Tick(Days)

SpecGate == InitGate /\ [][NextGate]_vars

\* the date an end-date cell of a hand-edited row denotes
GateDateOf(text) == (CHOOSE e \in GateEndCells : e.text = text).date

\* row i of the ledger belongs to the identity u: its user_id cell holds u
RowOf(s, i, u) == s[i][FindCol("user_id")] = StrOfInt(u)

\* the last handler run issued the call c to the membership system
Issued(c) == \E k \in 1..Len(ev.calls) : ev.calls[k][1] = c

\* some row of u has a known period_end that is today or later
HasEligibleRow(u) ==
    \E i \in 1..Len(sheet) :
        /\ RowOf(sheet, i, u)
        /\ GateDateOf(sheet[i][FindCol("end_date")]) # NoDate
        /\ DateLE(today, GateDateOf(sheet[i][FindCol("end_date")]))

\* C1: when the lookups of an access request by u succeed, the gatekeeper
\* admits u if and only if some ledger row whose identity is u has
\* period_end >= today; a row of another identity never makes u admissible.
C1_AdmitIffOwnEligibleRow ==
    (ev.op = "join" /\ ev.look # "error") =>
        (Issued("approve") <=> HasEligibleRow(ev.uid))

\* C2: when a lookup of an access request fails, or the ledger holds no row
\* of the requesting identity, the gatekeeper issues a decline and no admit.
C2_DeclineOnErrorOrNoRow ==
    (/\ ev.op = "join"
     /\ \/ ev.look = "error"
        \/ ~ \E i \in 1..Len(sheet) : RowOf(sheet, i, ev.uid))
    => (Issued("decline") /\ ~Issued("approve"))

\* C10: the eligibility evaluator is true exactly when the row's period_end
\* is a known date that is the as-of date or later, and false for an empty,
\* missing or unparseable period_end on every as-of date.
C10_EligibleIffKnownAndNotBefore ==
    \A i \in 1..Len(sheet) : \A t \in Days :
        LET pe == GateDateOf(sheet[i][FindCol("end_date")])
        IN  RowIsPaid(RowValues(sheet[i]), t) <=> (pe # NoDate /\ DateLE(t, pe))

\* a request was admitted on the last day of the period of its only row,
\* while another row's period_end is unparseable
C10_Witness ==
    /\ ev.op = "join" /\ ev.look = "eligible"
    /\ \E i \in 1..Len(sheet) :
        /\ RowOf(sheet, i, ev.uid)
        /\ GateDateOf(sheet[i][FindCol("end_date")]) = today
        /\ \A j \in 1..Len(sheet) : RowOf(sheet, j, ev.uid) => j = i
    /\ \E i \in 1..Len(sheet) :
        /\ sheet[i][FindCol("end_date")] # <<>>
        /\ GateDateOf(sheet[i][FindCol("end_date")]) = NoDate

-----------------------------------------------------------------------------
(* The two passes over hand-edited ledgers *)

PassDays == {<<2025, 3, 5>>, <<2025, 3, 25>>}

\* end-date cells with the date each one denotes (NoDate: none)
PassEndCells ==
    { [text |-> IsoFormat(<<2025, 3, 20>>), date |-> <<2025, 3, 20>>],
      [text |-> IsoFormat(<<2025, 3, 10>>), date |-> <<2025, 3, 10>>],
      [text |-> DmyFormat(<<2025, 1, 10>>, DOT), date |-> <<2025, 1, 10>>],
      [text |-> <<>>, date |-> NoDate] }

\* rows typed by hand, one of them with no identity
PassRows ==
    { MkRow(StrOfInt(1), e.text, <<>>) : e \in PassEndCells }
    \cup { MkRow(StrOfInt(2), DmyFormat(<<2025, 1, 10>>, DOT), <<>>),
           MkRow(<<JUNK>>, IsoFormat(<<2025, 3, 20>>), <<>>) }

InitPass ==
    /\ sheet \in SeqsUpTo(PassRows, MaxRowsPass)
    /\ today \in PassDays
    /\ end_day = 20
    /\ chan = [u \in Users |-> "member"]
    /\ reminder_state = ReminderInit
    /\ ev = [op |-> "init"]

\* in these runs only the store's delete calls raise
NextPass == Clean({"delete"}) \/ PurgeDups \/ Tick(PassDays)

SpecPass == InitPass /\ [][NextPass]_vars

\* the date an end-date cell of these rows denotes
PassDateOf(text) == (CHOOSE e \in PassEndCells : e.text = text).date

\* the date row i of the ledger s carries (NoDate: unknown)
EndOf(s, i) == PassDateOf(s[i][FindCol("end_date")])

\* the data rows of the identity u in s, and those with a known period_end
RowsOf(s, u) == { i \in 1..Len(s) : RowOf(s, i, u) }

DatedRowsOf(s, u) == { i \in RowsOf(s, u) : EndOf(s, i) # NoDate }

\* the maximum period_end over the rows of u
MaxEndOf(s, u) ==
    CHOOSE d \in { EndOf(s, i) : i \in DatedRowsOf(s, u) } :
        \A i \in DatedRowsOf(s, u) : DateLE(EndOf(s, i), d)

\* the ledger s without its worksheet rows S, the others in their order
RECURSIVE RowsLeft(_, _, _)
RowsLeft(s, S, i) ==
    IF i > Len(s) THEN <<>>
    ELSE (IF (i + 1) \in S THEN <<>> ELSE <<s[i]>>) \o RowsLeft(s, S, i + 1)

CleanRan == ev.op = "clean" /\ ev.read = "ok"

PurgeRan == ev.op = "purge" /\ ev.read = "ok"

\* C3: in the removal pass an identity is put in the kick set if and only if
\* the maximum period_end over its rows is strictly before the first day of
\* the current month.
C3_KickIffMaxBeforeFirstOfMonth ==
    CleanRan =>
        \A u \in Users : DatedRowsOf(ev.snap, u) # {} =>
            (u \in ev.kick <=>
                DateLT(MaxEndOf(ev.snap, u), <<ev.day[1], ev.day[2], 1>>))

\* data row i of the snapshot is still in the ledger, moved up by the rows
\* removed above it
StillThere(i) ==
    LET p == i - Cardinality({ r \in ev.removed : r < i + 1 })
    IN  (i + 1) \notin ev.removed /\ p \in 1..Len(sheet) /\ sheet[p] = ev.snap[i]

\* C4 as claimed: the removal pass marks only non-maximal rows: for every
\* identity, removal candidate or not, the row holding its maximum
\* period_end is never marked for deletion and is in the ledger after the
\* pass.
C4_MaxRowNeverMarked ==
    CleanRan =>
        \A u \in Users : \A i \in DatedRowsOf(ev.snap, u) :
            EndOf(ev.snap, i) = MaxEndOf(ev.snap, u) =>
                ((i + 1) \notin ev.marked /\ StillThere(i))

\* C4 as amended: for an identity that is not a removal candidate the rows
\* holding its maximum period_end are never marked and are in the ledger
\* after the pass; for a removal candidate every dated row, the maximal one
\* included, is marked for deletion.
C4_MaxRowKeptUnlessKicked ==
    CleanRan =>
        \A u \in Users : \A i \in DatedRowsOf(ev.snap, u) :
            /\ (u \notin ev.kick /\ EndOf(ev.snap, i) = MaxEndOf(ev.snap, u)) =>
                    ((i + 1) \notin ev.marked /\ StillThere(i))
            /\ u \in ev.kick => (i + 1) \in ev.marked

\* a pass kicked one identity, marking its rows, and for another identity
\* marked and removed a stale row while keeping the row with the maximum
C4_Witness ==
    /\ CleanRan
    /\ \E u \in ev.kick : DatedRowsOf(ev.snap, u) # {}
    /\ \E u \in Users \ ev.kick : \E i, j \in DatedRowsOf(ev.snap, u) :
        /\ (i + 1) \in ev.removed
        /\ EndOf(ev.snap, j) = MaxEndOf(ev.snap, u) /\ StillThere(j)

\* row i sorts below row j of the same identity by (period_end, row index),
\* an unknown period_end below every date
OrdersBelow(s, i, j) ==
    \/ EndOf(s, i) = NoDate /\ EndOf(s, j) # NoDate
    \/ EndOf(s, i) # NoDate /\ EndOf(s, j) # NoDate /\ DateLT(EndOf(s, i), EndOf(s, j))
    \/ EndOf(s, i) = EndOf(s, j) /\ i < j

\* C5: for every identity with more than one row the purge keeps exactly the
\* row maximal by (period_end, row index), unknown period_end lowest and ties
\* to the higher row, and marks every other row; for an identity with one
\* row nothing is marked.
C5_PurgeKeepsMaximalRow ==
    PurgeRan =>
        ev.marked = { i + 1 : i \in { k \in 1..Len(ev.snap) :
                        \E u \in Users : \E j \in RowsOf(ev.snap, u) :
                            k \in RowsOf(ev.snap, u) /\ OrdersBelow(ev.snap, k, j) } }

\* a purge met an identity with three rows, two of them tied on the date and
\* one undated, and another identity with a single row
C5_Witness ==
    /\ PurgeRan
    /\ \E u \in Users : \E i, j, k \in RowsOf(ev.snap, u) :
        /\ i < j /\ EndOf(ev.snap, i) = EndOf(ev.snap, j) /\ EndOf(ev.snap, i) # NoDate
        /\ EndOf(ev.snap, k) = NoDate
        /\ {i + 1, k + 1} \subseteq ev.marked /\ (j + 1) \notin ev.marked

\* C6: a purge run on the ledger left by a purge whose deletions all
\* succeeded marks nothing and deletes nothing, and every identity is left
\* with the one row the first run kept.
C6_PurgeIdempotent ==
    [][ (PurgedClean /\ ev'.op = "purge" /\ ev'.read = "ok") =>
            /\ ev'.marked = {} /\ ev'.removed = {}
            /\ sheet' = sheet
            /\ \A u \in Users : RowsOf(ev.snap, u) # {} =>
                \E i \in RowsOf(ev.snap, u) :
                    /\ (i + 1) \notin ev.marked
                    /\ \E p \in 1..Len(sheet') : RowsOf(sheet', u) = {p} /\ sheet'[p] = ev.snap[i]
      ]_vars

\* a second purge ran right after a purge that had deleted all it marked
C6_Witness ==
    /\ PurgeRan /\ ev.again
    /\ ev.marked = {} /\ sheet = ev.snap
    /\ \E u \in Users : RowsOf(sheet, u) # {}

\* the rows of a sequence of deletion ranges or rows come in descending order
Descending(q) == \A k \in 1..Len(q) : \A l \in (k + 1)..Len(q) : q[l] < q[k]

\* C8: when the purge or the removal pass applies its deletion set, the
\* deletions are issued in descending row order and every row removed is a
\* row marked in the snapshot, also when delete calls fail; when all delete
\* calls succeed the rows left are the unmarked snapshot rows in their order.
C8_OnlyMarkedRowsRemoved ==
    /\ PurgeRan =>
        /\ Descending(ev.order)
        /\ \E S \in SUBSET ev.marked : sheet = RowsLeft(ev.snap, S, 1)
        /\ ev.deleted = Cardinality(ev.marked) => sheet = RowsLeft(ev.snap, ev.marked, 1)
    /\ CleanRan =>
        /\ Descending([k \in 1..Len(ev.rngs) |-> ev.rngs[k][2]])
        /\ \E S \in SUBSET ev.marked : sheet = RowsLeft(ev.snap, S, 1)
        /\ ev.raised = {} => sheet = RowsLeft(ev.snap, ev.marked, 1)

\* a purge marked several rows, one delete call failed and a lower row was
\* deleted after it
C8_Witness ==
    /\ PurgeRan
    /\ \E f \in ev.marked \ ev.removed : \E r \in ev.removed : r < f
    /\ Len(sheet) < Len(ev.snap)

-----------------------------------------------------------------------------
(* Approvals over a small ledger *)

UpsertDays == {<<2025, 1, 15>>, <<2025, 12, 5>>}

\* what users_waiting holds for a requester: nothing, or a name
WaitingInfo ==
    { [username |-> <<>>, full_name |-> <<>>],
      [username |-> <<JUNK>>, full_name |-> <<JUNK>>] }

\* arguments of /set_end_day
EndDayArgs == { <<>>, <<StrOfInt(20)>>, <<StrOfInt(28)>>, <<StrOfInt(0)>>,
                <<StrOfInt(29)>>, << <<JUNK>> >> }

\* rows already in the ledger
UpsertRows ==
    { MkRowCh(StrOfInt(1), IsoFormat(<<2025, 1, 20>>), <<YES>>),
      MkRow(StrOfInt(2), IsoFormat(<<2025, 1, 20>>), <<>>),
      MkRow(StrOfInt(2), IsoFormat(<<2025, 1, 20>>), StrOfInt(1)) }

InitUpsert ==
    /\ sheet \in SeqsUpTo(UpsertRows, MaxRowsUpsert)
    /\ today \in UpsertDays
    /\ end_day = 20
    /\ chan = [u \in Users |-> "left"]
    /\ reminder_state = ReminderInit
    /\ ev = [op |-> "init"]

NextUpsert ==
    \/ \E u \in Users : Approve(u, WaitingInfo)
    \/ \E args \in {<<StrOfInt(28)>>, <<StrOfInt(29)>>} : SetEndDay(args)
    \/ Tick(UpsertDays)

SpecUpsert == InitUpsert /\ [][NextUpsert]_vars

\* the rows of s whose identity cell is u
UserRows(s, u) == { i \in 1..Len(s) : s[i][FindCol("user_id")] = StrOfInt(u) }

\* the last two events are approvals of one identity on one day, both saved,
\* the first from a ledger with no row for the identity
TwoUpserts ==
    /\ ev.op = "approve" /\ ev.saved
    /\ ev.prev.op = "approve" /\ ev.prev.saved
    /\ ev.prev.uid = ev.uid /\ ev.prev.day = ev.day
    /\ UserRows(ev.prev.snap, ev.uid) = {}

\* C7: after two successive saved approvals of one identity on one day, from
\* a ledger with no row for it, the ledger has exactly one row for the
\* identity; the second approval wrote over the row the first one wrote and
\* added no row; the end date in that row is the one the first approval stored.
C7_SecondUpsertOverwritesInPlace ==
    TwoUpserts =>
        /\ Cardinality(UserRows(sheet, ev.uid)) = 1
        /\ ~ev.appended
        /\ ev.row = ev.prev.row
        /\ Len(sheet) = Len(ev.snap)
        /\ UserRows(sheet, ev.uid) = {ev.row - 1}
        /\ sheet[ev.row - 1][FindCol("end_date")] = ev.prev.end
        /\ ev.snap[ev.row - 1][FindCol("end_date")] = ev.prev.end

\* two approvals of identity 1 in a row, with another identity's row in the
\* ledger and different names left by the requester
C7_Witness ==
    /\ TwoUpserts
    /\ ev.uid = 1
    /\ Len(sheet) = 2
    /\ sheet # ev.snap

\* the rows of s other than data row i are the rows of old, in order
OthersKept(s, old, i, appended) ==
    IF appended
    THEN Len(s) = Len(old) + 1 /\ i = Len(s) /\ SubSeq(s, 1, Len(old)) = old
    ELSE Len(s) = Len(old) /\ \A j \in 1..Len(s) : j # i => s[j] = old[j]

\* an approval saved its row, and the invite link was not created or not
\* delivered
SavedNotDelivered ==
    /\ ev.op = "approve" /\ ev.saved
    /\ \E k \in 1..Len(ev.calls) : ~ev.calls[k][Len(ev.calls[k])]

\* C18: when an approval has saved its row and the creation or the delivery
\* of the invite link fails, the row stays as written (the identity, today
\* as payment date, the end date), every other row is as before, and the
\* operator is told that the link was not delivered, not that access was
\* granted.
C18_NoRollbackAndDeliveryFailureReported ==
    SavedNotDelivered =>
        /\ sheet[ev.row - 1][FindCol("user_id")] = StrOfInt(ev.uid)
        /\ sheet[ev.row - 1][FindCol("paid_at")] = IsoFormat(ev.day)
        /\ sheet[ev.row - 1][FindCol("end_date")] = ev.end
        /\ sheet[ev.row - 1][FindCol("status")] = <<ACTIVE>>
        /\ OthersKept(sheet, ev.snap, ev.row - 1, ev.appended)
        /\ ev.reply = "approved_no_link"

\* a new row was appended, the link was created, its delivery failed
C18_Witness ==
    /\ SavedNotDelivered
    /\ ev.appended
    /\ ev.calls = << <<"create_chat_invite_link", TRUE>>, <<"send_message", ev.uid, FALSE>> >>
    /\ Len(sheet) = 2

-----------------------------------------------------------------------------
(* The end-date policy as a function of its inputs *)

PolicyDays ==
    { t \in {2024, 2025} \X (1..12) \X {1, 5, 15, 28, 29, 31} :
        ValidDate(t[1], t[2], t[3]) }

InitPolicy ==
    /\ sheet = <<>>
    /\ today \in PolicyDays
    /\ end_day \in (0 - 2)..MaxEndDayInput
    /\ chan = [u \in Users |-> "left"]
    /\ reminder_state = ReminderInit
    /\ ev = [op |-> "init"]

\* a call of _calc_end_date(today)
CalcEnd ==
    /\ ev' = [op |-> "calc", end |-> CalcEndDate(today, end_day)]
    /\ UNCHANGED <<sheet, today, end_day, chan, reminder_state>>

NextPolicy == CalcEnd

SpecPolicy == InitPolicy /\ [][NextPolicy]_vars

\* C9: _calc_end_date(today) is a date of the month right after today's
\* month (January of the next year after a December), on day 1 when the
\* configured day is below 1, on day 28 when it is above 28, and on the
\* configured day otherwise; (2025-01-15, 20) gives 2025-02-20 and
\* (2025-12-05, 31) gives 2026-01-28.
C9_NextMonthClampedDay ==
    ev.op = "calc" =>
        /\ Len(ev.end) = 3
        /\ ValidDate(ev.end[1], ev.end[2], ev.end[3])
        /\ 12 * ev.end[1] + ev.end[2] = 12 * today[1] + today[2] + 1
        /\ ev.end[3] \in 1..28
        /\ (end_day < 1 => ev.end[3] = 1)
        /\ (end_day > 28 => ev.end[3] = 28)
        /\ (end_day \in 1..28 => ev.end[3] = end_day)
        /\ (today = <<2025, 1, 15>> /\ end_day = 20 => ev.end = <<2025, 2, 20>>)
        /\ (today = <<2025, 12, 5>> /\ end_day = 31 => ev.end = <<2026, 1, 28>>)

\* the December example, with the configured day above 28
C9_Witness ==
    /\ ev.op = "calc"
    /\ today = <<2025, 12, 5>>
    /\ end_day = 31
    /\ ev.end = <<2026, 1, 28>>

-----------------------------------------------------------------------------
(* Audits over hand-edited ledgers *)

AuditDays == {<<2025, 3, 5>>, <<2025, 3, 15>>}

\* end-date cells with the date each one denotes (NoDate: none)
AuditEndCells ==
    { [text |-> IsoFormat(<<2025, 3, 20>>), date |-> <<2025, 3, 20>>],
      [text |-> IsoFormat(<<2025, 3, 10>>), date |-> <<2025, 3, 10>>],
      [text |-> DmyFormat(<<2025, 1, 10>>, DOT), date |-> <<2025, 1, 10>>],
      [text |-> <<>>, date |-> NoDate] }


\* rows typed by hand or left by earlier runs, one of them with no identity
AuditRows ==
    { MkRowCh(StrOfInt(1), IsoFormat(<<2025, 3, 20>>), <<>>),
      MkRowCh(StrOfInt(1), IsoFormat(<<2025, 3, 10>>), <<YES>>),
      MkRowCh(StrOfInt(1), <<>>, <<>>),
      MkRowCh(StrOfInt(2), DmyFormat(<<2025, 1, 10>>, DOT), <<>>),
      MkRowCh(<<JUNK>>, IsoFormat(<<2025, 3, 20>>), <<YES>>) }

\* who is in the channel when the runs start
AuditChans ==
    { [u \in Users |-> IF u = 1 THEN "member" ELSE "administrator"],
      [u \in Users |-> IF u = 1 THEN "left" ELSE "kicked"] }

InitAudit ==
    /\ sheet \in SeqsUpTo(AuditRows, MaxRowsAudit)
    /\ today \in AuditDays
    /\ end_day = 20
    /\ chan \in AuditChans
    /\ reminder_state = ReminderInit
    /\ ev = [op |-> "init"]

NextAudit == Audit \/ Tick(AuditDays)

SpecAudit == InitAudit /\ [][NextAudit]_vars

AuditDateOf(text) == (CHOOSE e \in AuditEndCells : e.text = text).date

\* the identities of the ledger s
Identities(s) ==
    { u \in Users : \E i \in 1..Len(s) : s[i][FindCol("user_id")] = StrOfInt(u) }

\* the known end dates of the rows of u in s
KnownEnds(s, u) ==
    { AuditDateOf(s[i][FindCol("end_date")]) :
        i \in { j \in 1..Len(s) : s[j][FindCol("user_id")] = StrOfInt(u) } } \ {NoDate}

\* u has a row in s whose known end date is the day t or later
PaidOn(s, u, t) == \E d \in KnownEnds(s, u) : DateLE(t, d)

AuditRan == ev.op = "audit" /\ ev.read = "ok"

\* C11: in an audit that read the ledger, unique_present and unique_absent
\* are disjoint, their union is the set of identities of the snapshot, and
\* their sizes add up to the number of identities, whichever membership
\* lookups raised.
C11_PresentAbsentPartition ==
    AuditRan =>
        /\ ev.unique_present \cap ev.unique_absent = {}
        /\ ev.unique_present \cup ev.unique_absent = Identities(ev.snap)
        /\ Cardinality(ev.unique_present) + Cardinality(ev.unique_absent)
             = Cardinality(Identities(ev.snap))
        /\ ev.uniq_total = Cardinality(Identities(ev.snap))

\* two identities, one found present, the lookup of the other raised
C11_Witness ==
    /\ AuditRan
    /\ ev.raised # {}
    /\ ev.unique_present # {}
    /\ \E u \in ev.raised : chan[u] \in {"member", "administrator"}

\* C12: an identity is in to_restore exactly when it is in unique_absent and
\* the latest known end date of its rows is today or later; nobody in
\* unique_present and nobody without such a row is in it.
C12_RestoreIffAbsentAndPaid ==
    AuditRan =>
        /\ { ev.to_restore[k] : k \in 1..Len(ev.to_restore) }
             = { u \in Identities(ev.snap) :
                   u \in ev.unique_absent /\ PaidOn(ev.snap, u, ev.day) }
        /\ \A k \in 1..Len(ev.to_restore) :
             /\ ev.to_restore[k] \notin ev.unique_present
             /\ PaidOn(ev.snap, ev.to_restore[k], ev.day)

\* one absent identity to restore, one absent identity whose rows are expired
C12_Witness ==
    /\ AuditRan
    /\ Len(ev.to_restore) = 1
    /\ \E u \in ev.unique_absent :
         /\ ~PaidOn(ev.snap, u, ev.day)
         /\ KnownEnds(ev.snap, u) # {}

\* the audit wrote the column
AuditWrote == AuditRan /\ ev.updates # <<>>

\* the in_channel cells of s are vals and every other cell is as in old
ColumnWritten(s, old, vals) ==
    /\ Len(s) = Len(old)
    /\ \A i \in 1..Len(s) : \A c \in 1..NCols :
         s[i][c] = IF c = FindCol("in_channel") THEN vals[i] ELSE old[i][c]

\* C13 as claimed: the audit writes the in_channel column with one update
\* over the data rows 2..N+1, "yes" in the rows of present identities and
\* "no" in every other data row.
C13_AuditWritesYesOrNo ==
    AuditWrote =>
        /\ Len(ev.updates) = 1
        /\ ev.updates[1].first = 2 /\ ev.updates[1].last = Len(ev.snap) + 1
        /\ \A i \in 1..Len(ev.snap) :
             ev.updates[1].values[i] =
               IF \E u \in ev.unique_present : ev.snap[i][FindCol("user_id")] = StrOfInt(u)
               THEN <<YES>> ELSE <<NO>>

\* C13 amended: when the update of the column does not raise, it is one
\* update of the in_channel column over the data rows 2..N+1 that writes
\* "yes" in the rows of present identities, "no" in the rows of the other
\* identities and the empty text in the rows with no identity; no other cell
\* changes.
C13_AuditWritesYesNoOrBlank ==
    AuditWrote =>
        /\ Len(ev.updates) = 1
        /\ ev.updates[1].col = FindCol("in_channel")
        /\ ev.updates[1].first = 2 /\ ev.updates[1].last = Len(ev.snap) + 1
        /\ \A i \in 1..Len(ev.snap) :
             ev.updates[1].values[i] =
               IF \E u \in ev.unique_present : ev.snap[i][FindCol("user_id")] = StrOfInt(u)
               THEN <<YES>>
               ELSE IF \E u \in ev.unique_absent : ev.snap[i][FindCol("user_id")] = StrOfInt(u)
               THEN <<NO>>
               ELSE <<>>
        /\ ColumnWritten(sheet, ev.snap, ev.updates[1].values)

\* an audit wrote "yes", "no" and the empty text in one run
C13_Witness ==
    /\ AuditWrote
    /\ \A v \in {<<YES>>, <<NO>>, <<>>} :
         \E i \in 1..Len(sheet) : sheet[i][FindCol("in_channel")] = v
    /\ sheet # ev.snap

-----------------------------------------------------------------------------
(* Broadcasts over hand-edited ledgers *)

\* rows typed by hand or left by earlier runs, one of them with no identity
BroadcastLedgerRows ==
    { MkRowCh(StrOfInt(1), IsoFormat(<<2025, 3, 10>>), <<>>),
      MkRowCh(StrOfInt(1), IsoFormat(<<2025, 3, 20>>), <<>>),
      MkRowCh(StrOfInt(1), IsoFormat(<<2025, 3, 20>>), <<YES>>),
      MkRowCh(StrOfInt(2), IsoFormat(<<2025, 3, 20>>), <<>>),
      MkRowCh(<<JUNK>>, IsoFormat(<<2025, 3, 20>>), <<>>) }

InitBroadcast ==
    /\ sheet \in SeqsUpTo(BroadcastLedgerRows, MaxRowsBroadcast)
    /\ today \in AuditDays
    /\ end_day = 20
    /\ chan = [u \in Users |-> "left"]
    /\ reminder_state = ReminderInit
    /\ ev = [op |-> "init"]

NextBroadcast == Broadcast \/ BroadcastPaidAbsent \/ Tick(AuditDays)

SpecBroadcast == InitBroadcast /\ [][NextBroadcast]_vars

\* the in_channel cells of the rows of u in s
InChannelOf(s, u) ==
    { s[i][FindCol("in_channel")] :
        i \in { j \in 1..Len(s) : s[j][FindCol("user_id")] = StrOfInt(u) } }

\* the uids of a sequence of targets or of sends
Targeted(q) == { q[k] : k \in 1..Len(q) }

\* C14: broadcast_paid_absent targets an identity exactly when the latest
\* known end date over all its rows is today or later and its in_channel
\* value is not "yes" (stated for the identities whose rows all carry the
\* same in_channel value), whatever the order of its rows.
C14_PaidAbsentByAuthoritativeEnd ==
    (ev.op = "broadcast_paid_absent" /\ ev.how \in {"no_targets", "start_failed", "done"}) =>
        \A u \in Identities(ev.snap) :
            Cardinality(InChannelOf(ev.snap, u)) = 1 =>
                (u \in Targeted(ev.targets)
                   <=> PaidOn(ev.snap, u, ev.day) /\ InChannelOf(ev.snap, u) # {<<YES>>})

\* the first data row of u in s
FirstRowOf(s, u) ==
    CHOOSE i \in 1..Len(s) :
        /\ s[i][FindCol("user_id")] = StrOfInt(u)
        /\ \A j \in 1..(i - 1) : s[j][FindCol("user_id")] # StrOfInt(u)

\* a broadcast that reached its delivery loop
Dispatched == ev.op \in {"broadcast", "broadcast_paid_absent"} /\ ev.how = "done"

\* C15: a broadcast that reaches its delivery loop attempts one delivery to
\* each identity of the ledger and no other, and the attempts follow the
\* order of the identities' first rows.
C15_OneAttemptPerIdentityInFirstRowOrder ==
    (Dispatched /\ ev.op = "broadcast") =>
        /\ \A u \in Identities(ev.snap) :
             Cardinality({ k \in 1..Len(ev.sends) : ev.sends[k][1] = u }) = 1
        /\ \A k \in 1..Len(ev.sends) : ev.sends[k][1] \in Identities(ev.snap)
        /\ \A j, k \in 1..Len(ev.sends) :
             j < k => FirstRowOf(ev.snap, ev.sends[j][1]) < FirstRowOf(ev.snap, ev.sends[k][1])

\* identity 2 between two rows of identity 1, or the other way round
C15_Witness ==
    /\ Dispatched /\ ev.op = "broadcast"
    /\ Len(ev.sends) = 2
    /\ Len(ev.snap) >= 3
    /\ ev.snap[1][FindCol("user_id")] = ev.snap[3][FindCol("user_id")]
    /\ ev.snap[1][FindCol("user_id")] # ev.snap[2][FindCol("user_id")]

\* C16: in a pass that reaches its delivery loop every target is attempted
\* once, in order, whichever sends raised, and sent and failed count the
\* sends that succeeded and that raised, so sent + failed is the number of
\* targets.
C16_FailureNeverStopsThePass ==
    Dispatched =>
        /\ Len(ev.sends) = Len(ev.targets)
        /\ \A k \in 1..Len(ev.targets) : ev.sends[k][1] = ev.targets[k]
        /\ ev.sent = Cardinality({ k \in 1..Len(ev.sends) : ev.sends[k][2] })
        /\ ev.failed = Cardinality({ k \in 1..Len(ev.sends) : ~ev.sends[k][2] })
        /\ ev.sent + ev.failed = Len(ev.targets)

\* the first send raised and the second one went through
C16_Witness ==
    /\ Dispatched
    /\ Len(ev.targets) = 2
    /\ ~ev.sends[1][2]
    /\ ev.sends[2][2]
    /\ ev.sent = 1 /\ ev.failed = 1

-----------------------------------------------------------------------------
(* The commands, sent by the operator and by others *)

\* arguments of /set_delete_date
DeleteDateArgs ==
    { <<>>, <<IsoFormat(<<2025, 12, 11>>)>>, <<DmyFormat(<<2025, 12, 11>>, DOT)>>,
      <<IsoFormat(<<2025, 2, 30>>)>>, << <<JUNK>> >> }

GuardInfo == { [username |-> <<>>, full_name |-> <<>>] }

\* the day of these runs
GuardDay == <<2025, 1, 15>>

InitGuard ==
    /\ sheet \in SeqsUpTo(UpsertRows, MaxRowsGuard)
    /\ today = GuardDay
    /\ end_day = 20
    /\ chan = [u \in Users |-> "member"]
    /\ reminder_state = ReminderInit
    /\ ev = [op |-> "init"]

\* every command and the Approve button (for the receipt of identity 1),
\* sent by the operator or by somebody else
NextGuard ==
    \E who \in Callers :
        \/ Command(who, "approve", Approve(1, GuardInfo))
        \/ ApproveButton(who, 1, GuardInfo)
        \/ Command(who, "clean", Clean({}))
        \/ \E args \in EndDayArgs : Command(who, "set_end_day", SetEndDay(args))
        \/ \E args \in DeleteDateArgs : Command(who, "set_delete_date", SetDeleteDate(args))
        \/ \E t \in BOOLEAN : Command(who, "set_reminder_text", SetReminderText(t))
        \/ \E cmd \in OperatorCommands : Refused(who, cmd)

SpecGuard == InitGuard /\ [][NextGuard]_vars

\* nothing is as it was before the refused command
Untouched == <<sheet, chan, end_day, reminder_state>> = ev.before

\* C17 as claimed: a command or an approval callback from somebody who is
\* not the operator changes no ledger row, no membership, neither the end day
\* nor the reminder campaign, and sends no message or reply.
C17_RefusedIsSilentNoOp ==
    ev.op = "refused" => Untouched /\ ev.messages = <<>>

\* C17 amended: a command from somebody who is not the operator changes
\* nothing and sends nothing; an approval callback from such a caller changes
\* nothing and only answers the callback with an alert to that caller.
C17_RefusedIsNoOpSilentForCommands ==
    ev.op = "refused" =>
        /\ ev.by # ADMIN_ID
        /\ Untouched
        /\ ev.cmd \in OperatorCommands => ev.messages = <<>>
        /\ ev.cmd = "approve_button" => ev.messages = << <<"answer_alert", ev.by>> >>

\* a refused /clean when rows are in the ledger and the campaign is set up
C17_Witness ==
    /\ ev.op = "refused"
    /\ ev.cmd = "clean"
    /\ sheet # <<>>
    /\ reminder_state.delete_date # NoDate
    /\ end_day # 20

\* the arguments of /set_delete_date that are dates written YYYY-MM-DD
GoodDeleteDates == { IsoFormat(<<2025, 12, 11>>) }

\* C19: the end day is always an integer from 1 to 28, and 20 before any
\* command; /set_end_day with an argument that is not a number from 1 to 28
\* is answered with a refusal and leaves the end day as it was;
\* /set_delete_date with an argument that is not a date YYYY-MM-DD is
\* answered with a refusal and leaves the cutoff date as it was.
C19_EndDayInRangeAndBadArgsRejected ==
    /\ end_day \in 1..28
    /\ ev.op = "init" => end_day = 20
    /\ (ev.op = "set_end_day" /\ ev.args # <<>>
          /\ ev.args[1] \notin { StrOfInt(n) : n \in 1..28 }) =>
            /\ ev.reply \in {"not_a_number", "out_of_range"}
            /\ end_day = ev.was
    /\ (ev.op = "set_delete_date" /\ ev.args # <<>>
          /\ ev.args[1] \notin GoodDeleteDates) =>
            /\ ev.reply = "bad_date"
            /\ reminder_state.delete_date = ev.was

\* /set_end_day 29 after the end day was set to 28 and the cutoff date given
C19_Witness ==
    /\ ev.op = "set_end_day"
    /\ ev.args = <<StrOfInt(29)>>
    /\ ev.reply = "out_of_range"
    /\ end_day = 28
    /\ reminder_state.delete_date = <<2025, 12, 11>>

-----------------------------------------------------------------------------
(* The removal pass against the gatekeeper *)

\* u has a row in the snapshot whose period_end is the day of the pass or later
AdmissibleOn(s, u, t) == \E i \in DatedRowsOf(s, u) : DateLE(t, EndOf(s, i))

\* C20: the removal pass never puts in its kick set, and never marks all the
\* rows of, an identity that has a row with period_end on the day of the
\* pass or later.
C20_NoKickOfAdmissibleIdentity ==
    CleanRan =>
        \A u \in Users : AdmissibleOn(ev.snap, u, ev.day) =>
            /\ u \notin ev.kick
            /\ \E i \in RowsOf(ev.snap, u) : (i + 1) \notin ev.marked
-----------------------------------------------------------------------------
(* One decision per access request *)

\* C21: for one access request the gatekeeper issues at most one decision:
\* no decline after an admit and no second decline, also when the admit or
\* the decline raises.
C21_AtMostOneDecision ==
    ev.op = "join" =>
        /\ Len(ev.calls) <= 1
        /\ ~(Issued("approve") /\ Issued("decline"))
-----------------------------------------------------------------------------
(* The removal pass and duplicate rows *)

\* C22: after a removal pass none of whose delete calls raised, no identity
\* has more than one row in the ledger, also when its duplicate rows carry
\* the same period_end.
C22_OneRowPerIdentityAfterPass ==
    (CleanRan /\ ev.raised = {}) =>
        \A u \in Users : Cardinality(RowsOf(sheet, u)) <= 1

\* C23: the removal pass marks for deletion every row with an unknown
\* period_end whose identity has a dated row, and puts in the kick set every
\* identity all of whose rows have an unknown period_end.
C23_UnknownEndIsMinimum ==
    CleanRan =>
        \A u \in Users :
            /\ DatedRowsOf(ev.snap, u) # {} =>
                 \A i \in RowsOf(ev.snap, u) \ DatedRowsOf(ev.snap, u) : (i + 1) \in ev.marked
            /\ (RowsOf(ev.snap, u) # {} /\ DatedRowsOf(ev.snap, u) = {}) => u \in ev.kick
-----------------------------------------------------------------------------
(* The removal pass and the channel *)

\* rows of subscriptions that ran out in January, and one that has not
KickRows ==
    { MkRow(StrOfInt(1), DmyFormat(<<2025, 1, 10>>, DOT), <<>>),
      MkRow(StrOfInt(2), DmyFormat(<<2025, 1, 10>>, DOT), <<>>),
      MkRow(StrOfInt(1), IsoFormat(<<2025, 3, 20>>), <<>>) }

\* who is in the channel when the runs start
KickChans == [Users -> {"member", "left", "administrator"}]

InitKick ==
    /\ sheet \in SeqsUpTo(KickRows, MaxRowsKick)
    /\ today \in PassDays
    /\ end_day = 20
    /\ chan \in KickChans
    /\ reminder_state = ReminderInit
    /\ ev = [op |-> "init"]

\* in these runs the calls to the membership system may raise
NextKick == Clean({"get_chat_member", "ban", "unban"}) \/ Tick(PassDays)

SpecKick == InitKick /\ [][NextKick]_vars

\* the pass called c for the identity u, with the outcome ok
Called(c, u, ok) == \E k \in 1..Len(ev.calls) : ev.calls[k] = <<c, u, ok>>

\* C24: the removal pass issues a ban for a candidate only when the lookup
\* of its status succeeded and the status is none of creator,
\* administrator, left, kicked.
C24_BanOnlyAfterLookupOfMember ==
    CleanRan =>
        \A u \in Users : (Called("ban", u, TRUE) \/ Called("ban", u, FALSE)) =>
            /\ Called("get_chat_member", u, TRUE)
            /\ ev.was[u] \notin {"creator", "administrator", "left", "kicked"}

\* C25: after a removal pass no identity it banned is left banned: each ban
\* that went through is followed at once by an unban of the same identity
\* that went through.
C25_EveryBanReversed ==
    CleanRan =>
        \A k \in 1..Len(ev.calls) :
            (ev.calls[k][1] = "ban" /\ ev.calls[k][3]) =>
                /\ k < Len(ev.calls)
                /\ ev.calls[k + 1] = <<"unban", ev.calls[k][2], TRUE>>
                /\ chan[ev.calls[k][2]] # "kicked"
-----------------------------------------------------------------------------
(* The store deletes of the removal pass *)

\* C26: the removal pass deletes by maximal runs of consecutive rows: one
\* store call per run, from the bottom of the sheet upwards, each call
\* with start = lowest row of the run <= end = highest row of the run, and
\* the ranges together are exactly the rows marked for deletion.
C26_OneDeletePerMaximalRun ==
    (CleanRan /\ ev.read = "ok") =>
        /\ \A k \in 1..Len(ev.deletes) :
               /\ ev.deletes[k][1] <= ev.deletes[k][2]
               /\ (ev.deletes[k][1] - 1) \notin ev.marked
               /\ (ev.deletes[k][2] + 1) \notin ev.marked
        /\ \A j, k \in 1..Len(ev.deletes) :
               j < k => ev.deletes[j][1] > ev.deletes[k][2]
        /\ UNION { ev.deletes[k][1]..ev.deletes[k][2] : k \in 1..Len(ev.deletes) }
               = ev.marked
-----------------------------------------------------------------------------
(* What an upsert writes *)

\* an approval saved its row
Upserted == ev.op = "approve" /\ ev.saved

\* some cell of the ledger s holds the text of the identity u
HasMatch(s, u) == \E i \in 1..Len(s), c \in 1..NCols : s[i][c] = StrOfInt(u)

\* the row an approval of u on the day t writes, cell by cell
WrittenRow(row, u, info, t, end) ==
    /\ row[FindCol("user_id")] = StrOfInt(u)
    /\ row[FindCol("username")] =
           (IF info.username = <<>> THEN <<ID, u>> ELSE <<AT>> \o info.username)
    /\ row[FindCol("paid_at")] = IsoFormat(t)
    /\ row[FindCol("end_date")] = end
    /\ row[FindCol("notified")] = <<NO>>
    /\ row[FindCol("status")] = <<ACTIVE>>
    /\ row[FindCol("full_name")] = info.full_name
    /\ row[FindCol("phone_number")] = <<>>
    /\ row[FindCol("in_channel")] = <<>>

\* C27: a saved upsert that finds a match replaces that whole row: the
\* columns of the write set hold the new values and every other column
\* (in_channel) is blank, whatever it held; with no match exactly one row
\* is appended; in both cases every other row is as it was.
C27_UpsertReplacesWholeRow ==
    Upserted =>
        /\ ev.appended <=> ~HasMatch(ev.snap, ev.uid)
        /\ ev.row - 1 \in 1..Len(sheet)
        /\ WrittenRow(sheet[ev.row - 1], ev.uid, ev.info, ev.day, ev.end)
        /\ OthersKept(sheet, ev.snap, ev.row - 1, ev.appended)

\* the row written over had "yes" in in_channel
C27_Witness ==
    /\ Upserted
    /\ ~ev.appended
    /\ ev.snap[ev.row - 1][FindCol("in_channel")] = <<YES>>
    /\ ev.info.full_name # <<>>
    /\ sheet[ev.row - 1][FindCol("in_channel")] = <<>>
-----------------------------------------------------------------------------
(* Access from approval to the end of the paid period *)

AccessDays == {<<2025, 1, 15>>, <<2025, 2, 20>>, <<2025, 2, 21>>}

\* the end dates an approval on one of these days stores
AccessEnds == {<<2025, 2, 20>>, <<2025, 3, 20>>}

\* rows already in the ledger: a paid row of identity 2 whose full-name cell
\* holds the digits of identity 1, and rows of periods that have run out
AccessRows ==
    { MkRow(StrOfInt(2), IsoFormat(<<2025, 3, 20>>), StrOfInt(1)),
      MkRow(StrOfInt(1), DmyFormat(<<2025, 1, 10>>, DOT), <<>>),
      MkRow(StrOfInt(2), IsoFormat(<<2025, 1, 10>>), <<>>) }

AccessInfo == { [username |-> <<>>, full_name |-> <<>>] }

InitAccess ==
    /\ sheet \in SeqsUpTo(AccessRows, MaxRowsAccess)
    /\ today \in AccessDays
    /\ end_day = 20
    /\ chan = [u \in Users |-> "left"]
    /\ reminder_state = ReminderInit
    /\ ev = [op |-> "init"]

\* days go by with no run of a handler: the last event stays the last
DaysPass(D) ==
    /\ \E d \in D : DateLT(today, d) /\ today' = d
    /\ UNCHANGED <<sheet, end_day, chan, reminder_state, ev>>

NextAccess ==
    \/ Approve(1, AccessInfo)
    \/ \E u \in Users : JoinRequest(u)
    \/ DaysPass(AccessDays)

SpecAccess == InitAccess /\ [][NextAccess]_vars

\* the date a stored period end denotes
AccessEndOf(text) == CHOOSE e \in AccessEnds : IsoFormat(e) = text

\* the last run is a request of an identity whose approval was the run
\* before it (days may have passed in between), the approval saved its
\* row, and the lookups of the request did not fail
RequestAfterUpsert ==
    /\ ev.op = "join" /\ ev.look # "error"
    /\ ev.prev.op = "approve" /\ ev.prev.saved
    /\ ev.prev.uid = ev.uid

\* C28: after a saved upsert of u on the day d that stored the period end e,
\* with no ledger change and no lookup error since, a request of u is
\* admitted on every day from d to e and, when no other row has the
\* identity u, declined (and not admitted) on every day after e.
C28_AccessFromUpsertToPeriodEnd ==
    RequestAfterUpsert =>
        LET e == AccessEndOf(ev.prev.end)
        IN  /\ (DateLE(ev.prev.day, ev.day) /\ DateLE(ev.day, e)) => Issued("approve")
            /\ (/\ DateLT(e, ev.day)
                /\ \A i \in 1..Len(sheet) : RowOf(sheet, i, ev.uid) => i = ev.prev.row - 1)
               => (Issued("decline") /\ ~Issued("approve"))
-----------------------------------------------------------------------------
(* What the purge leaves of every identity *)

\* some row of u in the ledger s has a known period_end that is today or later
EligibleIn(s, u) == \E i \in DatedRowsOf(s, u) : DateLE(today, EndOf(s, i))

\* C29: a purge never deletes the last row of an identity (the identities
\* with rows are the same before and after) and never changes whether an
\* identity has an eligible row; when all its deletes succeed every
\* identity is left with at most one row.
C29_PurgeKeepsIdentitiesAndEligibility ==
    PurgeRan =>
        /\ ev.removed = ev.marked =>
               \A u \in Users : Cardinality(RowsOf(sheet, u)) <= 1
        /\ \A u \in Users : (RowsOf(sheet, u) # {}) <=> (RowsOf(ev.snap, u) # {})
        /\ \A u \in Users : EligibleIn(sheet, u) <=> EligibleIn(ev.snap, u)

\* a purge deleted all it marked, among it an undated row of an identity
\* that has an eligible row, next to another identity with a single row
C29_Witness ==
    /\ PurgeRan
    /\ ev.marked # {} /\ ev.removed = ev.marked
    /\ \E u \in Users :
        /\ EligibleIn(ev.snap, u)
        /\ \E i \in RowsOf(ev.snap, u) : EndOf(ev.snap, i) = NoDate /\ (i + 1) \in ev.removed
        /\ Cardinality(RowsOf(sheet, u)) = 1
    /\ \E v \in Users : Cardinality(RowsOf(ev.snap, v)) = 1
-----------------------------------------------------------------------------
(* Membership lookups that raise during the audit *)

\* C30: an identity whose membership lookup raises in the audit counts as
\* absent: it is in unique_absent and not in unique_present, and when the
\* column is written its rows get "no", never "yes".
C30_FailedLookupIsAbsent ==
    AuditRan =>
        \A u \in ev.raised :
            /\ u \notin ev.unique_present
            /\ u \in ev.unique_absent
            /\ AuditWrote =>
                 \A i \in 1..Len(ev.snap) : ev.snap[i][FindCol("user_id")] = StrOfInt(u) =>
                    /\ ev.updates[1].values[i] = <<NO>>
                    /\ sheet[i][FindCol("in_channel")] = <<NO>>

\* the lookup raised for a member of the channel whose row said "yes", and
\* the column was written
C30_Witness ==
    /\ AuditWrote
    /\ \E u \in ev.raised :
        /\ chan[u] = "member"
        /\ \E i \in 1..Len(ev.snap) :
            /\ ev.snap[i][FindCol("user_id")] = StrOfInt(u)
            /\ ev.snap[i][FindCol("in_channel")] = <<YES>>
            /\ sheet[i][FindCol("in_channel")] = <<NO>>
-----------------------------------------------------------------------------
(* The rows an upsert may touch *)

\* C31: a saved upsert for the identity u changes only rows of u: every row
\* of the snapshot whose identity cell is not u is in its place unchanged
\* (also when another of its cells holds the text of u), no row is
\* removed, and the number of rows grows by one when u had no row and by
\* none otherwise.
C31_UpsertChangesOnlyOwnRows ==
    Upserted =>
        /\ Len(sheet) >= Len(ev.snap)
        /\ \A i \in 1..Len(ev.snap) :
               ~RowOf(ev.snap, i, ev.uid) => sheet[i] = ev.snap[i]
        /\ Len(sheet) = Len(ev.snap) + (IF UserRows(ev.snap, ev.uid) = {} THEN 1 ELSE 0)
-----------------------------------------------------------------------------
(* The number of deleted rows the removal pass reports *)

-----------------------------------------------------------------------------
(* An approval whose save fails *)

\* C33: when the lookup or the write of an approval raises, the approval
\* ends there: no invite link is asked of the membership system, nothing
\* is sent to the subscriber, and the operator is told that the record
\* could not be saved, not that the subscriber was approved.
C33_FailedSaveStopsApproval ==
    (ev.op = "approve" /\ ev.fault = "store") =>
        /\ ~ev.saved
        /\ ev.calls = <<>>
        /\ ev.reply = "save_failed"
        /\ ev.reply \notin {"approved", "approved_no_link"}

\* the save of an approval failed for an identity that has a row, and the
\* ledger is as it was
C33_Witness ==
    /\ ev.op = "approve" /\ ev.fault = "store"
    /\ UserRows(ev.snap, ev.uid) # {}
    /\ ev.info.full_name # <<>>
    /\ sheet = ev.snap
    /\ ev.reply = "save_failed"
-----------------------------------------------------------------------------
(* What the audit leaves alone *)

\* C34: a run of the audit removes and appends no row, changes no cell of
\* a data row outside the in_channel column, changes nobody's membership,
\* and calls the membership system only to count, to look members up and
\* to send its report: never to admit, decline, ban or unban; its store
\* writes are at most one update of the in_channel column.
C34_AuditTouchesOnlyInChannel ==
    ev.op = "audit" =>
        /\ Len(sheet) = Len(ev.snap)
        /\ \A i \in 1..Len(ev.snap) : \A c \in 1..NCols :
               c # FindCol("in_channel") => sheet[i][c] = ev.snap[i][c]
        /\ chan = ev.was
        /\ \A k \in 1..Len(ev.calls) :
               ev.calls[k][1] \in {"get_chat_member_count", "get_chat_member", "send_message"}
        /\ Len(ev.updates) <= 1
        /\ \A k \in 1..Len(ev.updates) : ev.updates[k].col = FindCol("in_channel")

\* an audit looked two identities up, one lookup raised, and the column it
\* wrote changed cells of rows that carry an identity and an end date
C34_Witness ==
    /\ AuditWrote
    /\ Len(ev.looked) = 2 /\ ev.raised # {}
    /\ sheet # ev.snap
    /\ \E i \in 1..Len(sheet) :
        /\ sheet[i][FindCol("in_channel")] # ev.snap[i][FindCol("in_channel")]
        /\ sheet[i][FindCol("end_date")] # <<>>

=============================================================================
